---- MODULE Spec2Model ----
(***************************************************************************)
(* The asynchronous task bridge of the X509 CRL / CRL-entry N-API glue:    *)
(* napi_x509_crl.cpp and napi_x509_crl_entry.cpp.                          *)
(*                                                                         *)
(* Each invocation slot i carries one call of an asynchronous entry point  *)
(* from the entry point (caller's thread) over Execute (worker thread) to  *)
(* Complete (caller's thread).  The C++ functions are operators on the     *)
(* record of the invocation; an action applies the operator of one        *)
(* handler to one slot.                                                    *)
(***************************************************************************)
EXTENDS Integers, Sequences, FiniteSets, TLC

\* ----------------------------------------------------------------- bounds
MaxInv == 2
MaxCount == 2

Inv == 1..MaxInv

\* ------------------------------------------------------- program constants
ARGS_SIZE_ONE == 1
ARGS_SIZE_TWO == 2

CF_SUCCESS == "CF_SUCCESS"
CF_INVALID_PARAMS == "CF_INVALID_PARAMS"
CF_ERR_MALLOC == "CF_ERR_MALLOC"
CF_ERR_CRYPTO_OPERATION == "CF_ERR_CRYPTO_OPERATION"

\* the non-success statuses a native operation is let to return
NativeErrs == {CF_ERR_MALLOC, CF_ERR_CRYPTO_OPERATION}
NativeRets == {CF_SUCCESS} \cup NativeErrs

ASYNC_TYPE_CALLBACK == "CALLBACK"
ASYNC_TYPE_PROMISE == "PROMISE"

Ops == {"createX509Crl", "getEncoded", "verify", "getRevokedCerts", "entryGetEncoded",
        "getRevokedCert", "getRevokedCertWithCert", "getTbsInfo", "getSignature"}

\* ------------------------------------------------------------ napi values
\* A napi_value: the C++ nullptr, the JS null, a business error, an encoding
\* blob, an instance wrapping native object elems[1], or an array of instances.
NapiValue(kind, code, msg, elems) ==
    [kind |-> kind, code |-> code, msg |-> msg, elems |-> elems]

Nullptr == NapiValue("nullptr", "", "", <<>>)

CertNapiGetNull == NapiValue("null", "", "", <<>>)

CertGenerateBusinessError(code, msg) == NapiValue("error", code, msg, <<>>)

ConvertEncodingBlobToNapiValue(encoded) == NapiValue("blob", "", "", <<>>)

\* The bytes of a CfBlob copied into a JS value.
CertConvertBlobToNapiValue(blob) == NapiValue("blob", "", "", <<blob>>)

\* What the native getSignature of the CRL writes into the blob it is handed:
\* the signature value of the CRL, not its TBS part.
HcfX509Crl_getSignature == "signatureValue"

InstanceOf(o) == NapiValue("instance", "", "", <<o>>)

ArrayOf(os) == NapiValue("array", "", "", os)

\* ------------------------------------------------------------------ CfCtx
\* The fields of struct CfCtx after HcfMalloc(sizeof(CfCtx), 0).  crl and
\* array are 0 for a null pointer; array.count is array->count.
CfCtx ==
    [asyncType |-> ASYNC_TYPE_CALLBACK, promise |-> FALSE, callback |-> FALSE,
     deferred |-> FALSE, asyncWork |-> FALSE, encodingBlob |-> FALSE,
     crlClass |-> FALSE, crlEntryClass |-> FALSE, pubKey |-> FALSE,
     errCode |-> CF_SUCCESS, errMsg |-> "",
     crl |-> 0, encoded |-> FALSE, array |-> FALSE, count |-> 0]

\* The record of one invocation: its position, the Context and the heap block
\* that holds it, and what the invocation has done so far.
\*   heap      "none" (not allocated), "live", "freed"
\*   released  the number of times the Context's block was handed to CfFree
\*   refDel    the number of napi_delete_reference calls on ctx.callback
\*   workDel   the number of napi_delete_async_work calls
\*   delivered the callback calls and promise settlements made, in order
\*   thrown    the napi_throw calls made, in order, with the function that made them
\*   nativeRet the status the native operation returned; nativeCalls how many ran
\*   uaf       the worker dereferenced a target whose finalizer had destroyed it
\*   ret       what the entry point returned: "nullptr", "promise", "null",
\*             "instance" (a synchronous lookup returning its handle),
\*             "blob" (a synchronous getter returning bytes)
\*   nativeFn  the function of the native CRL a synchronous getter called
\*   retData   the bytes in the blob a synchronous getter returned
\*   objs      the native objects the worker produced: state and destroy count
\*   wrapFail  the object whose wrapper could not be allocated (0: none)
\*   trace     the steps Build, Schedule, Execute, Dispatch, Release, in order
\*   sel       the arguments the running entry point called
\*             CreateCallbackAndPromise with: argc and argv are locals of the
\*             entry point, gone when it returns
\*   log       the LOGE messages, in order
\*   writes    the assignments to errCode, errMsg and the payload fields of the
\*             Context, in order, each with the function kind that made it
\*   freedIn   the function kinds FreeCryptoFwkCtx was called from, in order
\*   freedBufs the buffers of the Context that FreeCryptoFwkCtx gave back to
\*             the heap: CfFree of a null pointer gives nothing back
IdleInv ==
    [pc |-> "idle", op |-> "none", ctx |-> CfCtx, heap |-> "none", released |-> 0,
     refDel |-> 0, workDel |-> 0, delivered |-> <<>>, thrown |-> <<>>,
     nativeRet |-> "none", nativeCalls |-> 0, uaf |-> FALSE, ret |-> "none",
     objs |-> <<>>, wrapFail |-> 0, trace |-> <<>>,
     sel |-> <<>>, log |-> <<>>, writes |-> <<>>, freedIn |-> <<>>,
     freedBufs |-> {}, nativeFn |-> "none", retData |-> "none"]

\* The kind of the function that is running on the invocation: an entry point
\* (nothing queued yet), an Execute function (queued work taken by a worker),
\* a Complete function (executed work taken by the caller's thread).
Running(s) ==
    CASE s.pc = "idle" -> "entry"
      [] s.pc = "queued" -> "execute"
      [] s.pc = "executed" -> "complete"
      [] OTHER -> "none"

LOGE(s, msg) == [s EXCEPT !.log = Append(@, msg)]

\* context->errCode = code
SetErrCode(s, code) ==
    [s EXCEPT !.ctx.errCode = code,
              !.writes = Append(@, [field |-> "errCode", by |-> Running(s)])]

\* context->errMsg = msg
SetErrMsg(s, msg) ==
    [s EXCEPT !.ctx.errMsg = msg,
              !.writes = Append(@, [field |-> "errMsg", by |-> Running(s)])]

\* An assignment to a payload field of the Context: context->encoded,
\* context->array, context->crl.
Payload(s, field) ==
    [s EXCEPT !.writes = Append(@, [field |-> field, by |-> Running(s)])]

\* ---------------------------------------------------------- native objects
\* A native object produced by a worker: "raw" (owned by the Context),
\* "wrapped" (owned by a NapiX509Crl / NapiX509CrlEntry behind a handle),
\* "destroyed" (CfObjDestroy by the bridge), "finalized" (CfObjDestroy by the
\* destructor its handle's finalizer runs).  destroys and wraps count the
\* calls; early: the bridge destroyed it before the invocation delivered.
RawObj == [st |-> "raw", destroys |-> 0, wraps |-> 0, early |-> FALSE]

CfObjDestroy(s, o) ==
    [s EXCEPT !.objs[o] = [@ EXCEPT !.st = "destroyed", !.destroys = @ + 1,
                                    !.early = (s.delivered = <<>>)]]

\* new (std::nothrow) NapiX509Crl(obj) / NapiX509CrlEntry(obj) returned nullptr
NewFailed(s, o) == [s EXCEPT !.wrapFail = o]

\* new (std::nothrow) NapiX509Crl(obj) / NapiX509CrlEntry(obj) followed by napi_wrap
WrapObj(s, o) ==
    [s EXCEPT !.objs[o] = [@ EXCEPT !.st = "wrapped", !.wraps = @ + 1]]

NapiThrow(s, where, code) ==
    [s EXCEPT !.thrown = Append(@, [where |-> where, code |-> code])]

\* ------------------------------------------------------- napi_x509_crl.cpp
\* The host's calls (napi_call_function, napi_resolve_deferred,
\* napi_reject_deferred, napi_delete_reference, ...) are taken to do what they
\* are asked; a nullptr napi_value reaches the caller as an empty slot.  The
\* calls whose failure the model follows are those that decide what the bridge
\* does next: the allocations, the native operations, the retention of the
\* callback, and the creation and queueing of the work.
FreeCryptoFwkCtx(s) ==
    IF s.heap = "none" THEN s
    ELSE [s EXCEPT !.workDel = @ + (IF s.ctx.asyncWork THEN 1 ELSE 0),
                   !.refDel = @ + (IF s.ctx.callback THEN 1 ELSE 0),
                   !.freedBufs = @ \cup {f \in {"encodingBlob", "encoded", "array"} :
                                             s.ctx[f]},
                   !.ctx = [@ EXCEPT !.encodingBlob = FALSE, !.encoded = FALSE,
                                     !.array = FALSE],
                   !.heap = "freed",
                   !.released = @ + 1,
                   !.freedIn = Append(@, Running(s)),
                   !.trace = Append(@, "release")]

ReturnCallbackResult(s, result, cbOk) ==
    LET businessError == IF s.ctx.errCode /= CF_SUCCESS
                         THEN CertGenerateBusinessError(s.ctx.errCode, s.ctx.errMsg)
                         ELSE Nullptr
    IN [s EXCEPT !.delivered = Append(@, [via |-> "callback", err |-> businessError,
                                          value |-> result, ok |-> cbOk]),
                 !.trace = Append(@, "dispatch")]

ReturnPromiseResult(s, result) ==
    IF s.ctx.errCode = CF_SUCCESS
    THEN [s EXCEPT !.delivered = Append(@, [via |-> "resolve", err |-> Nullptr,
                                            value |-> result, ok |-> TRUE]),
                   !.trace = Append(@, "dispatch")]
    ELSE [s EXCEPT !.delivered =
                       Append(@, [via |-> "reject",
                                  err |-> CertGenerateBusinessError(s.ctx.errCode,
                                                                    s.ctx.errMsg),
                                  value |-> Nullptr, ok |-> TRUE]),
                   !.trace = Append(@, "dispatch")]

ReturnResult(s, result, cbOk) ==
    IF s.ctx.asyncType = ASYNC_TYPE_CALLBACK
    THEN ReturnCallbackResult(s, result, cbOk)
    ELSE ReturnPromiseResult(s, result)

\* GetAsyncType (napi_cert_utils): Callback iff the argument count reaches the
\* maximum and the last argument is a function.
GetAsyncType(argc, maxCount, callable) ==
    IF argc = maxCount /\ callable THEN ASYNC_TYPE_CALLBACK ELSE ASYNC_TYPE_PROMISE

\* CertCheckArgsCount (napi_cert_utils): a synchronous method takes exactly the
\* expected count, an asynchronous one may leave out the callback.
CertCheckArgsCount(argc, expectedCount, isSync) ==
    IF isSync THEN argc = expectedCount
    ELSE argc = expectedCount \/ argc = expectedCount - ARGS_SIZE_ONE

\* Mutant: the mode follows the last argument alone, whatever the count.
CreateCallbackAndPromise_CountIgnored(s, argc, maxCount, callable, refOk) ==
    LET s1 == [s EXCEPT !.ctx.asyncType = GetAsyncType(maxCount, maxCount, callable),
                        !.sel = Append(@, [argc |-> argc, maxCount |-> maxCount,
                                           callable |-> callable])]
    IN IF s1.ctx.asyncType = ASYNC_TYPE_CALLBACK
       THEN IF ~refOk THEN <<FALSE, LOGE(s1, "x509 crl: get callback failed!")>>
            ELSE <<TRUE, [s1 EXCEPT !.ctx.callback = TRUE]>>
       ELSE <<TRUE, [s1 EXCEPT !.ctx.deferred = TRUE, !.ctx.promise = TRUE]>>

\* Mutant: the promise is created in Callback mode too.
CreateCallbackAndPromise_PromiseAlways(s, argc, maxCount, callable, refOk) ==
    LET s1 == [s EXCEPT !.ctx.asyncType = GetAsyncType(argc, maxCount, callable),
                        !.sel = Append(@, [argc |-> argc, maxCount |-> maxCount,
                                           callable |-> callable]),
                        !.ctx.deferred = TRUE, !.ctx.promise = TRUE]
    IN IF s1.ctx.asyncType = ASYNC_TYPE_CALLBACK
       THEN IF ~refOk THEN <<FALSE, LOGE(s1, "x509 crl: get callback failed!")>>
            ELSE <<TRUE, [s1 EXCEPT !.ctx.callback = TRUE]>>
       ELSE <<TRUE, s1>>

\* Returns <<ok, s'>>.  refOk: CertGetCallbackFromJSParams could retain the callable.
CreateCallbackAndPromise(s, argc, maxCount, callable, refOk) ==
    LET s1 == [s EXCEPT !.ctx.asyncType = GetAsyncType(argc, maxCount, callable),
                        !.sel = Append(@, [argc |-> argc, maxCount |-> maxCount,
                                           callable |-> callable])]
    IN IF s1.ctx.asyncType = ASYNC_TYPE_CALLBACK
       THEN IF ~refOk THEN <<FALSE, LOGE(s1, "x509 crl: get callback failed!")>>
            ELSE <<TRUE, [s1 EXCEPT !.ctx.callback = TRUE]>>
       ELSE <<TRUE, [s1 EXCEPT !.ctx.deferred = TRUE, !.ctx.promise = TRUE]>>

\* ---- worker side: the Execute functions (run on a worker thread) ----------
\* allocOk: HcfMalloc of the result buffer succeeded; ret: the native status.
\* Mutant: the return after the failed allocation is missing, the worker goes
\* on to the native call and stores the buffer pointer.
GetEncodedExecute_NoReturn(s, allocOk, ret) ==
    LET s0 == IF ~allocOk
              THEN SetErrMsg(SetErrCode(LOGE(s, "malloc encoding blob failed!"),
                                        CF_ERR_MALLOC),
                             "malloc encoding blob failed")
              ELSE s
        s1 == [SetErrCode(s0, ret) EXCEPT !.nativeRet = ret, !.nativeCalls = @ + 1]
        s2 == IF s1.ctx.errCode /= CF_SUCCESS
              THEN SetErrMsg(LOGE(s1, "get encoded failed!"), "get encoded failed")
              ELSE s1
    IN [Payload(s2, "encoded") EXCEPT !.ctx.encoded = allocOk]

GetEncodedExecute(s, allocOk, ret) ==
    IF ~allocOk
    THEN SetErrMsg(SetErrCode(LOGE(s, "malloc encoding blob failed!"), CF_ERR_MALLOC),
                   "malloc encoding blob failed")
    ELSE LET s1 == [SetErrCode(s, ret) EXCEPT !.nativeRet = ret, !.nativeCalls = @ + 1]
             s2 == IF s1.ctx.errCode /= CF_SUCCESS
                   THEN SetErrMsg(LOGE(s1, "get encoded failed!"), "get encoded failed")
                   ELSE s1
         IN [Payload(s2, "encoded") EXCEPT !.ctx.encoded = TRUE]

\* Mutant: the worker clears the callback reference of the Context.
VerifyExecute_DropsCallback(s, ret) ==
    LET s1 == [SetErrCode(s, ret) EXCEPT !.nativeRet = ret, !.nativeCalls = @ + 1,
                                         !.ctx.callback = FALSE]
    IN IF s1.ctx.errCode /= CF_SUCCESS
       THEN SetErrMsg(LOGE(s1, "verify crl failed!"), "verify crl failed")
       ELSE s1

VerifyExecute(s, ret) ==
    LET s1 == [SetErrCode(s, ret) EXCEPT !.nativeRet = ret, !.nativeCalls = @ + 1]
    IN IF s1.ctx.errCode /= CF_SUCCESS
       THEN SetErrMsg(LOGE(s1, "verify crl failed!"), "verify crl failed")
       ELSE s1

\* Mutant: the failure message copied from GetEncodedExecute.
GetRevokedCertificatesExecute_WrongMsg(s, allocOk, ret, n) ==
    IF ~allocOk
    THEN SetErrMsg(SetErrCode(LOGE(s, "malloc array failed!"), CF_ERR_MALLOC),
                   "malloc array failed")
    ELSE LET cnt == IF ret = CF_SUCCESS THEN n ELSE 0
             s1 == [SetErrCode(s, ret) EXCEPT !.nativeRet = ret, !.nativeCalls = @ + 1,
                                              !.objs = [k \in 1..cnt |-> RawObj]]
             s2 == IF s1.ctx.errCode /= CF_SUCCESS
                   THEN SetErrMsg(LOGE(s1, "get revoked certs failed!"), "get encoded failed")
                   ELSE s1
         IN [Payload(s2, "array") EXCEPT !.ctx.array = TRUE, !.ctx.count = cnt]

\* n: the number of entries getRevokedCerts stores in the array on success.
GetRevokedCertificatesExecute(s, allocOk, ret, n) ==
    IF ~allocOk
    THEN SetErrMsg(SetErrCode(LOGE(s, "malloc array failed!"), CF_ERR_MALLOC),
                   "malloc array failed")
    ELSE LET cnt == IF ret = CF_SUCCESS THEN n ELSE 0
             s1 == [SetErrCode(s, ret) EXCEPT !.nativeRet = ret, !.nativeCalls = @ + 1,
                                              !.objs = [k \in 1..cnt |-> RawObj]]
             s2 == IF s1.ctx.errCode /= CF_SUCCESS
                   THEN SetErrMsg(LOGE(s1, "get revoked certs failed!"), "get revoked certs failed")
                   ELSE s1
         IN [Payload(s2, "array") EXCEPT !.ctx.array = TRUE, !.ctx.count = cnt]

CreateX509CrlExecute(s, ret) ==
    LET s0 == [SetErrCode(s, ret) EXCEPT !.nativeRet = ret, !.nativeCalls = @ + 1]
        s1 == IF ret = CF_SUCCESS
              THEN [Payload(s0, "crl") EXCEPT !.ctx.crl = 1, !.objs = <<RawObj>>]
              ELSE s0
    IN IF s1.ctx.errCode /= CF_SUCCESS
       THEN SetErrMsg(s1, "create X509Crl failed")
       ELSE s1

\* ---- caller side: the Complete functions (run on the caller's thread) ------
\* Mutant: the return after the failure branch is missing.
GetEncodedComplete_FallThrough(s, status, cbOk) ==
    LET s1 == IF s.ctx.errCode /= CF_SUCCESS
              THEN FreeCryptoFwkCtx(ReturnResult(s, Nullptr, cbOk))
              ELSE s
        returnEncodingBlob == ConvertEncodingBlobToNapiValue(s1.ctx.encoded)
    IN FreeCryptoFwkCtx(ReturnResult(s1, returnEncodingBlob, cbOk))

\* status: the napi_status the host hands the Complete function; cbOk: the
\* status napi_call_function reports for the callback.  The code reads neither.
GetEncodedComplete(s, status, cbOk) ==
    IF s.ctx.errCode /= CF_SUCCESS
    THEN FreeCryptoFwkCtx(ReturnResult(s, Nullptr, cbOk))
    ELSE LET returnEncodingBlob == ConvertEncodingBlobToNapiValue(s.ctx.encoded)
         IN FreeCryptoFwkCtx(ReturnResult(s, returnEncodingBlob, cbOk))

\* Mutant: cancelled work is dropped without delivery or release.
VerifyComplete_StatusGated(s, status, cbOk) ==
    IF status /= "napi_ok" THEN s
    ELSE FreeCryptoFwkCtx(ReturnResult(s, CertNapiGetNull, cbOk))

\* Mutant: the Context is released before the result is delivered.
VerifyComplete_FreeFirst(s, status, cbOk) ==
    ReturnResult(FreeCryptoFwkCtx(s), CertNapiGetNull, cbOk)

VerifyComplete(s, status, cbOk) ==
    FreeCryptoFwkCtx(ReturnResult(s, CertNapiGetNull, cbOk))

\* The loop of GenerateCrlEntryArray from index i on (1-based); acc holds the
\* instances set into returnArray so far.  failAt: the index whose
\* new (std::nothrow) NapiX509CrlEntry returns nullptr (0: none).
\* Returns <<napi_value, s'>>.
RECURSIVE CrlEntryLoop(_, _, _, _)
CrlEntryLoop(s, i, acc, failAt) ==
    IF i > s.ctx.count THEN <<ArrayOf(acc), s>>
    ELSE IF i = failAt
         THEN <<Nullptr,
                CfObjDestroy(LOGE(NapiThrow(NewFailed(s, i), "GenerateCrlEntryArray",
                                            CF_ERR_MALLOC),
                                  "Failed to create a x509CrlEntry class"), i)>>
         ELSE CrlEntryLoop(WrapObj(s, i), i + 1, Append(acc, i), failAt)

\* Mutant: napi_set_element stores the instances from the last index down.
GenerateCrlEntryArray_Reversed(s, failAt) ==
    IF ~s.ctx.array THEN <<Nullptr, LOGE(s, "crl entry array is null!")>>
    ELSE IF s.ctx.count = 0 THEN <<Nullptr, LOGE(s, "crl entry array count is 0!")>>
    ELSE LET r == CrlEntryLoop(s, 1, <<>>, failAt)
             n == Len(r[1].elems)
         IN IF r[1].kind = "array"
            THEN <<ArrayOf([k \in 1..n |-> r[1].elems[n + 1 - k]]), r[2]>>
            ELSE r

\* Mutant: an empty result is handed over as an empty array.
GenerateCrlEntryArray_EmptyArray(s, failAt) ==
    IF ~s.ctx.array THEN <<ArrayOf(<<>>), s>>
    ELSE CrlEntryLoop(s, 1, <<>>, failAt)

GenerateCrlEntryArray(s, failAt) ==
    IF ~s.ctx.array THEN <<Nullptr, LOGE(s, "crl entry array is null!")>>
    ELSE IF s.ctx.count = 0 THEN <<Nullptr, LOGE(s, "crl entry array count is 0!")>>
    ELSE CrlEntryLoop(s, 1, <<>>, failAt)

\* Mutant: the Complete function reports a failed wrap through errCode.
GetRevokedCertificatesComplete_SetsError(s, status, failAt, cbOk) ==
    IF s.ctx.errCode /= CF_SUCCESS
    THEN FreeCryptoFwkCtx(ReturnResult(s, Nullptr, cbOk))
    ELSE LET r == GenerateCrlEntryArray(s, failAt)
             s1 == IF r[2].wrapFail /= 0
                   THEN SetErrMsg(SetErrCode(r[2], CF_ERR_MALLOC),
                                  "Failed to create a x509CrlEntry class")
                   ELSE r[2]
         IN FreeCryptoFwkCtx(ReturnResult(s1, r[1], cbOk))

GetRevokedCertificatesComplete(s, status, failAt, cbOk) ==
    IF s.ctx.errCode /= CF_SUCCESS
    THEN FreeCryptoFwkCtx(ReturnResult(s, Nullptr, cbOk))
    ELSE LET r == GenerateCrlEntryArray(s, failAt)
         IN FreeCryptoFwkCtx(ReturnResult(r[2], r[1], cbOk))

\* Mutant: the wrapper-allocation failure path forgets the native CRL.
CreateX509CrlComplete_NoDestroy(s, status, wrapOk, cbOk) ==
    IF s.ctx.errCode /= CF_SUCCESS
    THEN FreeCryptoFwkCtx(ReturnResult(LOGE(s, "call create X509Crl failed!"), Nullptr,
                                       cbOk))
    ELSE IF ~wrapOk
         THEN LET s0 == NewFailed(s, s.ctx.crl)
                  s1 == LOGE(SetErrMsg(SetErrCode(s0, CF_ERR_MALLOC),
                                       "Failed to create a x509Crl class"),
                             "Failed to create a x509Crl class")
              IN FreeCryptoFwkCtx(ReturnResult(s1, Nullptr, cbOk))
         ELSE LET s1 == WrapObj(s, s.ctx.crl)
              IN FreeCryptoFwkCtx(ReturnResult(s1, InstanceOf(s.ctx.crl), cbOk))

\* Mutant: the native CRL is destroyed although its wrapper owns it.
CreateX509CrlComplete_DestroysWrapped(s, status, wrapOk, cbOk) ==
    IF s.ctx.errCode /= CF_SUCCESS
    THEN FreeCryptoFwkCtx(ReturnResult(LOGE(s, "call create X509Crl failed!"), Nullptr,
                                       cbOk))
    ELSE IF ~wrapOk
         THEN LET s0 == NewFailed(s, s.ctx.crl)
                  s1 == LOGE(SetErrMsg(SetErrCode(s0, CF_ERR_MALLOC),
                                       "Failed to create a x509Crl class"),
                             "Failed to create a x509Crl class")
                  s2 == CfObjDestroy(s1, s1.ctx.crl)
              IN FreeCryptoFwkCtx(ReturnResult(s2, Nullptr, cbOk))
         ELSE LET s1 == WrapObj(s, s.ctx.crl)
                  s2 == ReturnResult(s1, InstanceOf(s.ctx.crl), cbOk)
              IN FreeCryptoFwkCtx(CfObjDestroy(s2, s2.ctx.crl))

\* wrapOk: new (std::nothrow) NapiX509Crl did not return nullptr.
CreateX509CrlComplete(s, status, wrapOk, cbOk) ==
    IF s.ctx.errCode /= CF_SUCCESS
    THEN FreeCryptoFwkCtx(ReturnResult(LOGE(s, "call create X509Crl failed!"), Nullptr,
                                       cbOk))
    ELSE IF ~wrapOk
         THEN LET s0 == NewFailed(s, s.ctx.crl)
                  s1 == LOGE(SetErrMsg(SetErrCode(s0, CF_ERR_MALLOC),
                                       "Failed to create a x509Crl class"),
                             "Failed to create a x509Crl class")
                  s2 == CfObjDestroy(s1, s1.ctx.crl)
              IN FreeCryptoFwkCtx(ReturnResult(s2, Nullptr, cbOk))
         ELSE LET s1 == WrapObj(s, s.ctx.crl)
              IN FreeCryptoFwkCtx(ReturnResult(s1, InstanceOf(s.ctx.crl), cbOk))

\* ---- caller side: the entry points up to napi_queue_async_work -------------
\* HcfMalloc(sizeof(CfCtx), 0) succeeded: the Context is built.
NewCtx(s, ctx0) ==
    [s EXCEPT !.ctx = ctx0, !.heap = "live", !.trace = Append(@, "build")]

\* return nullptr before any work was queued
ReturnNullptr(s) == [s EXCEPT !.pc = "rejected", !.ret = "nullptr", !.sel = <<>>]

\* napi_create_async_work and napi_queue_async_work, whose statuses the entry
\* points ignore.  workOk / queueOk: the call succeeded; the queue call is
\* handed the handle the create call stored, a null one when it failed.
QueueAsyncWork(s, workOk, queueOk) ==
    LET s1 == [s EXCEPT !.ctx.asyncWork = workOk]
    IN IF s1.ctx.asyncWork /\ queueOk
       THEN [s1 EXCEPT !.pc = "queued", !.trace = Append(@, "schedule")]
       ELSE [s1 EXCEPT !.pc = "unqueued"]

GetEncoded(s, argc, callable, allocOk, refOk, workOk, queueOk) ==
    IF ~CertCheckArgsCount(argc, ARGS_SIZE_ONE, FALSE)
    THEN ReturnNullptr(NapiThrow(s, "CertCheckArgsCount", CF_INVALID_PARAMS))
    ELSE IF ~allocOk THEN ReturnNullptr(LOGE(s, "malloc context failed!"))
    ELSE LET s1 == NewCtx(s, [CfCtx EXCEPT !.crlClass = TRUE])
             r == CreateCallbackAndPromise(s1, argc, ARGS_SIZE_ONE, callable, refOk)
         IN IF ~r[1] THEN ReturnNullptr(FreeCryptoFwkCtx(r[2]))
            ELSE QueueAsyncWork(r[2], workOk, queueOk)

\* Mutant: the return after the throw for a null public key is missing.
Verify_NullKeyGoesOn(s, argc, callable, keyOk, allocOk, refOk, workOk, queueOk) ==
    IF ~CertCheckArgsCount(argc, ARGS_SIZE_TWO, FALSE)
    THEN ReturnNullptr(NapiThrow(s, "CertCheckArgsCount", CF_INVALID_PARAMS))
    ELSE LET s0 == IF ~keyOk
                   THEN LOGE(NapiThrow(s, "Verify", CF_INVALID_PARAMS), "pubKey is null!")
                   ELSE s
         IN IF ~allocOk THEN ReturnNullptr(LOGE(s0, "malloc context failed!"))
            ELSE LET s1 == NewCtx(s0, [CfCtx EXCEPT !.pubKey = TRUE, !.crlClass = TRUE])
                     r == CreateCallbackAndPromise(s1, argc, ARGS_SIZE_TWO, callable,
                                                   refOk)
                 IN IF ~r[1] THEN ReturnNullptr(FreeCryptoFwkCtx(r[2]))
                    ELSE QueueAsyncWork(r[2], workOk, queueOk)

\* keyOk: napi_unwrap of argv[0] gave a NapiPubKey.
Verify(s, argc, callable, keyOk, allocOk, refOk, workOk, queueOk) ==
    IF ~CertCheckArgsCount(argc, ARGS_SIZE_TWO, FALSE)
    THEN ReturnNullptr(NapiThrow(s, "CertCheckArgsCount", CF_INVALID_PARAMS))
    ELSE IF ~keyOk
    THEN ReturnNullptr(LOGE(NapiThrow(s, "Verify", CF_INVALID_PARAMS), "pubKey is null!"))
    ELSE IF ~allocOk THEN ReturnNullptr(LOGE(s, "malloc context failed!"))
    ELSE LET s1 == NewCtx(s, [CfCtx EXCEPT !.pubKey = TRUE, !.crlClass = TRUE])
             r == CreateCallbackAndPromise(s1, argc, ARGS_SIZE_TWO, callable, refOk)
         IN IF ~r[1] THEN ReturnNullptr(FreeCryptoFwkCtx(r[2]))
            ELSE QueueAsyncWork(r[2], workOk, queueOk)

\* Mutant: the entry point releases the Context it hands to the work.
GetRevokedCertificates_FreesQueued(s, argc, callable, allocOk, refOk, workOk, queueOk) ==
    IF ~CertCheckArgsCount(argc, ARGS_SIZE_ONE, FALSE)
    THEN ReturnNullptr(NapiThrow(s, "CertCheckArgsCount", CF_INVALID_PARAMS))
    ELSE IF ~allocOk THEN ReturnNullptr(LOGE(s, "malloc context failed!"))
    ELSE LET s1 == NewCtx(s, [CfCtx EXCEPT !.crlClass = TRUE])
             r == CreateCallbackAndPromise(s1, argc, ARGS_SIZE_ONE, callable, refOk)
         IN IF ~r[1] THEN ReturnNullptr(FreeCryptoFwkCtx(r[2]))
            ELSE QueueAsyncWork(FreeCryptoFwkCtx(r[2]), workOk, queueOk)

GetRevokedCertificates(s, argc, callable, allocOk, refOk, workOk, queueOk) ==
    IF ~CertCheckArgsCount(argc, ARGS_SIZE_ONE, FALSE)
    THEN ReturnNullptr(NapiThrow(s, "CertCheckArgsCount", CF_INVALID_PARAMS))
    ELSE IF ~allocOk THEN ReturnNullptr(LOGE(s, "malloc context failed!"))
    ELSE LET s1 == NewCtx(s, [CfCtx EXCEPT !.crlClass = TRUE])
             r == CreateCallbackAndPromise(s1, argc, ARGS_SIZE_ONE, callable, refOk)
         IN IF ~r[1] THEN ReturnNullptr(FreeCryptoFwkCtx(r[2]))
            ELSE QueueAsyncWork(r[2], workOk, queueOk)

\* Mutant: the Context is not released when the callback cannot be retained.
NapiCreateX509Crl_NoFree(s, argc, callable, allocOk, blobOk, refOk, workOk, queueOk) ==
    IF ~CertCheckArgsCount(argc, ARGS_SIZE_TWO, FALSE)
    THEN ReturnNullptr(NapiThrow(s, "CertCheckArgsCount", CF_INVALID_PARAMS))
    ELSE IF ~allocOk THEN ReturnNullptr(LOGE(s, "malloc context failed!"))
    ELSE LET s1 == NewCtx(s, CfCtx)
         IN IF ~blobOk
            THEN ReturnNullptr(FreeCryptoFwkCtx(LOGE(s1,
                                   "get encoding blob from data failed!")))
            ELSE LET s2 == [s1 EXCEPT !.ctx.encodingBlob = TRUE]
                     r == CreateCallbackAndPromise(s2, argc, ARGS_SIZE_TWO, callable,
                                                   refOk)
                 IN IF ~r[1] THEN ReturnNullptr(r[2])
                    ELSE QueueAsyncWork(r[2], workOk, queueOk)

\* blobOk: GetEncodingBlobFromValue decoded argv[0] into context->encodingBlob.
NapiCreateX509Crl(s, argc, callable, allocOk, blobOk, refOk, workOk, queueOk) ==
    IF ~CertCheckArgsCount(argc, ARGS_SIZE_TWO, FALSE)
    THEN ReturnNullptr(NapiThrow(s, "CertCheckArgsCount", CF_INVALID_PARAMS))
    ELSE IF ~allocOk THEN ReturnNullptr(LOGE(s, "malloc context failed!"))
    ELSE LET s1 == NewCtx(s, CfCtx)
         IN IF ~blobOk
            THEN ReturnNullptr(FreeCryptoFwkCtx(LOGE(s1,
                                   "get encoding blob from data failed!")))
            ELSE LET s2 == [s1 EXCEPT !.ctx.encodingBlob = TRUE]
                     r == CreateCallbackAndPromise(s2, argc, ARGS_SIZE_TWO, callable,
                                                   refOk)
                 IN IF ~r[1] THEN ReturnNullptr(FreeCryptoFwkCtx(r[2]))
                    ELSE QueueAsyncWork(r[2], workOk, queueOk)

\* ---- caller side: the synchronous lookups ---------------------------------
\* return instance: the handle wrapping native object o goes to the caller.
ReturnInstance(s, o) == [s EXCEPT !.pc = "returned", !.ret = InstanceOf(o).kind]

\* Mutant: the failed allocation of the wrapper leaves the entry alone.
GetRevokedCertificate_NoDestroy(s, argc, serialOk, ret, wrapOk) ==
    IF ~CertCheckArgsCount(argc, ARGS_SIZE_ONE, TRUE)
    THEN ReturnNullptr(NapiThrow(s, "CertCheckArgsCount", CF_INVALID_PARAMS))
    ELSE IF ~serialOk THEN ReturnNullptr(LOGE(s, "get serialNumber failed!"))
    ELSE LET s1 == [s EXCEPT !.nativeRet = ret, !.nativeCalls = @ + 1,
                             !.objs = IF ret = CF_SUCCESS THEN <<RawObj>> ELSE <<>>]
         IN IF ret /= CF_SUCCESS
            THEN ReturnNullptr(LOGE(NapiThrow(s1, "GetRevokedCertificate", ret),
                                    "get revoked cert failed!"))
            ELSE IF ~wrapOk
            THEN ReturnNullptr(LOGE(NapiThrow(NewFailed(s1, 1), "GetRevokedCertificate",
                                              CF_ERR_MALLOC),
                                    "Failed to create a x509CrlEntry class"))
            ELSE ReturnInstance(WrapObj(s1, 1), 1)

\* serialOk: CertGetInt32FromJSParams read the serial number from argv[0];
\* ret: the status of getRevokedCert, which stores the entry on success.
GetRevokedCertificate(s, argc, serialOk, ret, wrapOk) ==
    IF ~CertCheckArgsCount(argc, ARGS_SIZE_ONE, TRUE)
    THEN ReturnNullptr(NapiThrow(s, "CertCheckArgsCount", CF_INVALID_PARAMS))
    ELSE IF ~serialOk THEN ReturnNullptr(LOGE(s, "get serialNumber failed!"))
    ELSE LET s1 == [s EXCEPT !.nativeRet = ret, !.nativeCalls = @ + 1,
                             !.objs = IF ret = CF_SUCCESS THEN <<RawObj>> ELSE <<>>]
         IN IF ret /= CF_SUCCESS
            THEN ReturnNullptr(LOGE(NapiThrow(s1, "GetRevokedCertificate", ret),
                                    "get revoked cert failed!"))
            ELSE IF ~wrapOk
            THEN ReturnNullptr(CfObjDestroy(
                     LOGE(NapiThrow(NewFailed(s1, 1), "GetRevokedCertificate",
                                    CF_ERR_MALLOC),
                          "Failed to create a x509CrlEntry class"), 1))
            ELSE ReturnInstance(WrapObj(s1, 1), 1)

\* certOk: napi_unwrap of argv[0] gave a NapiX509Certificate.
GetRevokedCertificateWithCert(s, argc, certOk, ret, wrapOk) ==
    IF ~CertCheckArgsCount(argc, ARGS_SIZE_ONE, TRUE)
    THEN ReturnNullptr(NapiThrow(s, "CertCheckArgsCount", CF_INVALID_PARAMS))
    ELSE IF ~certOk
    THEN ReturnNullptr(LOGE(NapiThrow(s, "GetRevokedCertificateWithCert",
                                      CF_INVALID_PARAMS), "napiX509Cert is null!"))
    ELSE LET s1 == [s EXCEPT !.nativeRet = ret, !.nativeCalls = @ + 1,
                             !.objs = IF ret = CF_SUCCESS THEN <<RawObj>> ELSE <<>>]
         IN IF ret /= CF_SUCCESS
            THEN ReturnNullptr(LOGE(NapiThrow(s1, "GetRevokedCertificateWithCert", ret),
                                    "get revoked cert with cert failed!"))
            ELSE IF ~wrapOk
            THEN ReturnNullptr(CfObjDestroy(
                     LOGE(NapiThrow(NewFailed(s1, 1), "GetRevokedCertificateWithCert",
                                    CF_ERR_MALLOC),
                          "Failed to create a x509CrlEntry class"), 1))
            ELSE ReturnInstance(WrapObj(s1, 1), 1)

\* return returnBlob: a synchronous getter hands back the converted blob.
ReturnBlob(s, v) ==
    [s EXCEPT !.pc = "returned", !.ret = v.kind, !.retData = v.elems[1]]

\* Mutant: getTbsInfo calls a native TBS operation of its own.
GetTBSCertList_NativeTbs(s, allocOk, ret) ==
    IF ~allocOk THEN ReturnNullptr(LOGE(s, "malloc blob failed!"))
    ELSE LET s1 == [s EXCEPT !.nativeFn = "getTbsInfo", !.nativeRet = ret,
                             !.nativeCalls = @ + 1]
         IN IF ret /= CF_SUCCESS
            THEN ReturnNullptr(LOGE(NapiThrow(s1, "GetTBSCertList", ret),
                                    "get tbs info failed!"))
            ELSE ReturnBlob(s1, CertConvertBlobToNapiValue("tbsCertList"))

\* allocOk: HcfMalloc of the blob succeeded; ret: the status of the native
\* call, which is x509Crl->getSignature.
GetTBSCertList(s, allocOk, ret) ==
    IF ~allocOk THEN ReturnNullptr(LOGE(s, "malloc blob failed!"))
    ELSE LET s1 == [s EXCEPT !.nativeFn = "getSignature", !.nativeRet = ret,
                             !.nativeCalls = @ + 1]
         IN IF ret /= CF_SUCCESS
            THEN ReturnNullptr(LOGE(NapiThrow(s1, "GetTBSCertList", ret),
                                    "get tbs info failed!"))
            ELSE ReturnBlob(s1, CertConvertBlobToNapiValue(HcfX509Crl_getSignature))

GetSignature(s, allocOk, ret) ==
    IF ~allocOk THEN ReturnNullptr(LOGE(s, "malloc blob failed!"))
    ELSE LET s1 == [s EXCEPT !.nativeFn = "getSignature", !.nativeRet = ret,
                             !.nativeCalls = @ + 1]
         IN IF ret /= CF_SUCCESS
            THEN ReturnNullptr(LOGE(NapiThrow(s1, "GetSignature", ret),
                                    "getSignature failed!"))
            ELSE ReturnBlob(s1, CertConvertBlobToNapiValue(HcfX509Crl_getSignature))

\* Mutant: the entry point returns the null value in both modes.
ReturnPromiseOrNull_NullAlways(s) ==
    [s EXCEPT !.ret = "null", !.sel = <<>>]

\* The last statement of every entry point, after napi_queue_async_work.
ReturnPromiseOrNull(s) ==
    IF s.ctx.asyncType = ASYNC_TYPE_PROMISE
    THEN [s EXCEPT !.ret = "promise", !.sel = <<>>]
    ELSE [s EXCEPT !.ret = "null", !.sel = <<>>]

\* ------------------------------------------------- napi_x509_crl_entry.cpp
\* The CRL-entry file has its own CfCtx (no encodingBlob, no array) and its own
\* static copies of the bridge functions.
Entry_FreeCryptoFwkCtx(s) ==
    IF s.heap = "none" THEN s
    ELSE [s EXCEPT !.workDel = @ + (IF s.ctx.asyncWork THEN 1 ELSE 0),
                   !.refDel = @ + (IF s.ctx.callback THEN 1 ELSE 0),
                   !.freedBufs = @ \cup {f \in {"encoded"} : s.ctx[f]},
                   !.ctx = [@ EXCEPT !.encoded = FALSE],
                   !.heap = "freed",
                   !.released = @ + 1,
                   !.freedIn = Append(@, Running(s)),
                   !.trace = Append(@, "release")]

Entry_ReturnCallbackResult(s, result, cbOk) ==
    LET businessError == IF s.ctx.errCode /= CF_SUCCESS
                         THEN CertGenerateBusinessError(s.ctx.errCode, s.ctx.errMsg)
                         ELSE Nullptr
    IN [s EXCEPT !.delivered = Append(@, [via |-> "callback", err |-> businessError,
                                          value |-> result, ok |-> cbOk]),
                 !.trace = Append(@, "dispatch")]

Entry_ReturnPromiseResult(s, result) ==
    IF s.ctx.errCode = CF_SUCCESS
    THEN [s EXCEPT !.delivered = Append(@, [via |-> "resolve", err |-> Nullptr,
                                            value |-> result, ok |-> TRUE]),
                   !.trace = Append(@, "dispatch")]
    ELSE [s EXCEPT !.delivered =
                       Append(@, [via |-> "reject",
                                  err |-> CertGenerateBusinessError(s.ctx.errCode,
                                                                    s.ctx.errMsg),
                                  value |-> Nullptr, ok |-> TRUE]),
                   !.trace = Append(@, "dispatch")]

Entry_ReturnResult(s, result, cbOk) ==
    IF s.ctx.asyncType = ASYNC_TYPE_CALLBACK
    THEN Entry_ReturnCallbackResult(s, result, cbOk)
    ELSE Entry_ReturnPromiseResult(s, result)

Entry_CreateCallbackAndPromise(s, argc, maxCount, callable, refOk) ==
    LET s1 == [s EXCEPT !.ctx.asyncType = GetAsyncType(argc, maxCount, callable),
                        !.sel = Append(@, [argc |-> argc, maxCount |-> maxCount,
                                           callable |-> callable])]
    IN IF s1.ctx.asyncType = ASYNC_TYPE_CALLBACK
       THEN IF ~refOk THEN <<FALSE, LOGE(s1, "x509 crl entry: get callback failed!")>>
            ELSE <<TRUE, [s1 EXCEPT !.ctx.callback = TRUE]>>
       ELSE <<TRUE, [s1 EXCEPT !.ctx.deferred = TRUE, !.ctx.promise = TRUE]>>

\* Mutant: a failed getEncoded is called a second time.
Entry_GetEncodedExecute_Retry(s, allocOk, ret) ==
    IF ~allocOk
    THEN SetErrMsg(SetErrCode(LOGE(s, "malloc encoding blob failed!"), CF_ERR_MALLOC),
                   "malloc encoding blob failed")
    ELSE LET s0 == [SetErrCode(s, ret) EXCEPT !.nativeRet = ret, !.nativeCalls = @ + 1]
             s1 == IF s0.ctx.errCode /= CF_SUCCESS
                   THEN [SetErrCode(s0, ret) EXCEPT !.nativeCalls = @ + 1]
                   ELSE s0
             s2 == IF s1.ctx.errCode /= CF_SUCCESS
                   THEN SetErrMsg(LOGE(s1, "get encoded failed!"), "get encoded failed")
                   ELSE s1
         IN [Payload(s2, "encoded") EXCEPT !.ctx.encoded = TRUE]

Entry_GetEncodedExecute(s, allocOk, ret) ==
    IF ~allocOk
    THEN SetErrMsg(SetErrCode(LOGE(s, "malloc encoding blob failed!"), CF_ERR_MALLOC),
                   "malloc encoding blob failed")
    ELSE LET s1 == [SetErrCode(s, ret) EXCEPT !.nativeRet = ret, !.nativeCalls = @ + 1]
             s2 == IF s1.ctx.errCode /= CF_SUCCESS
                   THEN SetErrMsg(LOGE(s1, "get encoded failed!"), "get encoded failed")
                   ELSE s1
         IN [Payload(s2, "encoded") EXCEPT !.ctx.encoded = TRUE]

Entry_GetEncodedComplete(s, status, cbOk) ==
    IF s.ctx.errCode /= CF_SUCCESS
    THEN Entry_FreeCryptoFwkCtx(Entry_ReturnResult(s, Nullptr, cbOk))
    ELSE LET returnEncodingBlob == ConvertEncodingBlobToNapiValue(s.ctx.encoded)
         IN Entry_FreeCryptoFwkCtx(Entry_ReturnResult(s, returnEncodingBlob, cbOk))

Entry_GetEncoded(s, argc, callable, allocOk, refOk, workOk, queueOk) ==
    IF ~CertCheckArgsCount(argc, ARGS_SIZE_ONE, FALSE)
    THEN ReturnNullptr(NapiThrow(s, "CertCheckArgsCount", CF_INVALID_PARAMS))
    ELSE IF ~allocOk THEN ReturnNullptr(LOGE(s, "malloc context failed!"))
    ELSE LET s1 == NewCtx(s, [CfCtx EXCEPT !.crlEntryClass = TRUE])
             r == Entry_CreateCallbackAndPromise(s1, argc, ARGS_SIZE_ONE, callable,
                                                 refOk)
         IN IF ~r[1] THEN ReturnNullptr(Entry_FreeCryptoFwkCtx(r[2]))
            ELSE QueueAsyncWork(r[2], workOk, queueOk)

\* ------------------------------------------------------------------ state
\* inv      the invocation slots
\* jsThread the slot whose entry point is running on the caller's thread
\*          (between napi_queue_async_work and its return), 0 when the thread
\*          is free for a Complete function or a finalizer
\* native   the native objects the methods are invoked on or are handed: the
\*          HcfX509Crl behind the CRL handle, the HcfX509CrlEntry behind the
\*          entry handle, the HcfPubKey behind the key handle; "alive", or
\*          "destroyed" once the handle's finalizer has run
VARIABLES inv, jsThread, native

vars == <<inv, jsThread, native>>

Targets == {"crl", "entry", "pubKey"}

\* The argument counts napi_get_cb_info may report to an entry point.
ArgCounts == 0..(ARGS_SIZE_TWO + 1)

Init == /\ inv = [i \in Inv |-> IdleInv]
        /\ jsThread = 0
        /\ native = [t \in Targets |-> "alive"]

\* Slots are taken in order; the caller's thread runs one entry point at a time.
CanCall(i) ==
    /\ jsThread = 0
    /\ inv[i].pc = "idle"
    /\ \A j \in Inv : j < i => inv[j].pc /= "idle"

\* The entry point has run up to napi_queue_async_work (or has returned nullptr,
\* or, a synchronous lookup, its handle).
Entered(i, op, s) ==
    /\ inv' = [inv EXCEPT ![i] = [s EXCEPT !.op = op]]
    /\ jsThread' = IF s.pc \in {"rejected", "returned"} THEN 0 ELSE i
    /\ UNCHANGED native

CallGetEncoded(i) ==
    /\ CanCall(i)
    /\ native["crl"] = "alive"
    /\ \E argc \in ArgCounts, callable, allocOk, refOk, workOk, queueOk \in BOOLEAN :
          Entered(i, "getEncoded",
                  GetEncoded(inv[i], argc, callable, allocOk, refOk, workOk, queueOk))

CallVerify(i) ==
    /\ CanCall(i)
    /\ native["crl"] = "alive"
    /\ \E argc \in ArgCounts,
          callable, keyOk, allocOk, refOk, workOk, queueOk \in BOOLEAN :
          /\ keyOk => native["pubKey"] = "alive"
          /\ Entered(i, "verify",
                     Verify(inv[i], argc, callable, keyOk, allocOk, refOk, workOk,
                            queueOk))

CallGetRevokedCertificates(i) ==
    /\ CanCall(i)
    /\ native["crl"] = "alive"
    /\ \E argc \in ArgCounts, callable, allocOk, refOk, workOk, queueOk \in BOOLEAN :
          Entered(i, "getRevokedCerts",
                  GetRevokedCertificates(inv[i], argc, callable, allocOk, refOk, workOk,
                                         queueOk))

CallNapiCreateX509Crl(i) ==
    /\ CanCall(i)
    /\ \E argc \in ArgCounts,
          callable, allocOk, blobOk, refOk, workOk, queueOk \in BOOLEAN :
          Entered(i, "createX509Crl",
                  NapiCreateX509Crl(inv[i], argc, callable, allocOk, blobOk, refOk,
                                    workOk, queueOk))

CallEntryGetEncoded(i) ==
    /\ CanCall(i)
    /\ native["entry"] = "alive"
    /\ \E argc \in ArgCounts, callable, allocOk, refOk, workOk, queueOk \in BOOLEAN :
          Entered(i, "entryGetEncoded",
                  Entry_GetEncoded(inv[i], argc, callable, allocOk, refOk, workOk,
                                   queueOk))

CallGetRevokedCertificate(i) ==
    /\ CanCall(i)
    /\ native["crl"] = "alive"
    /\ \E argc \in ArgCounts, serialOk, wrapOk \in BOOLEAN, ret \in NativeRets :
          Entered(i, "getRevokedCert",
                  GetRevokedCertificate(inv[i], argc, serialOk, ret, wrapOk))

CallGetRevokedCertificateWithCert(i) ==
    /\ CanCall(i)
    /\ native["crl"] = "alive"
    /\ \E argc \in ArgCounts, certOk, wrapOk \in BOOLEAN, ret \in NativeRets :
          Entered(i, "getRevokedCertWithCert",
                  GetRevokedCertificateWithCert(inv[i], argc, certOk, ret, wrapOk))

CallGetTBSCertList(i) ==
    /\ CanCall(i)
    /\ native["crl"] = "alive"
    /\ \E allocOk \in BOOLEAN, ret \in NativeRets :
          Entered(i, "getTbsInfo", GetTBSCertList(inv[i], allocOk, ret))

CallGetSignature(i) ==
    /\ CanCall(i)
    /\ native["crl"] = "alive"
    /\ \E allocOk \in BOOLEAN, ret \in NativeRets :
          Entered(i, "getSignature", GetSignature(inv[i], allocOk, ret))

\* Mutant: the entry point waits for the worker before it returns.
EntryReturn_AfterExecute(i) ==
    /\ jsThread = i
    /\ inv[i].pc /= "queued"
    /\ inv' = [inv EXCEPT ![i] = ReturnPromiseOrNull(@)]
    /\ jsThread' = 0
    /\ UNCHANGED native

\* The entry point reads the Context's mode and returns to the caller.
EntryReturn(i) ==
    /\ jsThread = i
    /\ inv' = [inv EXCEPT ![i] = ReturnPromiseOrNull(@)]
    /\ jsThread' = 0
    /\ UNCHANGED native

\* The targets the Execute function of an operation dereferences.
Borrowed(op) ==
    CASE op = "getEncoded" -> {"crl"}
      [] op = "verify" -> {"crl", "pubKey"}
      [] op = "getRevokedCerts" -> {"crl"}
      [] op = "entryGetEncoded" -> {"entry"}
      [] OTHER -> {}

\* Mutant: one Context serves all invocations; what a worker writes into the
\* result slot shows in every one of them.
Executed_SharedContext(i, used, s) ==
    /\ inv' = [j \in Inv |->
                  IF j = i
                  THEN [s EXCEPT !.pc = "executed",
                                 !.uaf = \E t \in used : native[t] /= "alive",
                                 !.trace = Append(@, "execute")]
                  ELSE IF inv[j].heap = "live"
                       THEN [inv[j] EXCEPT !.ctx.errCode = s.ctx.errCode,
                                           !.ctx.errMsg = s.ctx.errMsg]
                       ELSE inv[j]]
    /\ UNCHANGED <<jsThread, native>>

\* A worker thread runs the Execute function of queued work.  The worker
\* dereferences the borrowed targets; a destroyed one is a use after free:
\* the native call may return any status (uaf records that it happened).
Executed(i, used, s) ==
    /\ inv' = [inv EXCEPT ![i] = [s EXCEPT !.pc = "executed",
                                           !.uaf = \E t \in used : native[t] /= "alive",
                                           !.trace = Append(@, "execute")]]
    /\ UNCHANGED <<jsThread, native>>

CanExecute(i, op) == inv[i].pc = "queued" /\ inv[i].op = op

ExecGetEncoded(i) ==
    /\ CanExecute(i, "getEncoded")
    /\ \E allocOk \in BOOLEAN, ret \in NativeRets :
          Executed(i, Borrowed("getEncoded"), GetEncodedExecute(inv[i], allocOk, ret))

ExecVerify(i) ==
    /\ CanExecute(i, "verify")
    /\ \E ret \in NativeRets :
          Executed(i, Borrowed("verify"), VerifyExecute(inv[i], ret))

ExecGetRevokedCertificates(i) ==
    /\ CanExecute(i, "getRevokedCerts")
    /\ \E allocOk \in BOOLEAN, ret \in NativeRets, n \in 0..MaxCount :
          Executed(i, Borrowed("getRevokedCerts"),
                   GetRevokedCertificatesExecute(inv[i], allocOk, ret, n))

ExecCreateX509Crl(i) ==
    /\ CanExecute(i, "createX509Crl")
    /\ \E ret \in NativeRets :
          Executed(i, Borrowed("createX509Crl"), CreateX509CrlExecute(inv[i], ret))

ExecEntryGetEncoded(i) ==
    /\ CanExecute(i, "entryGetEncoded")
    /\ \E allocOk \in BOOLEAN, ret \in NativeRets :
          Executed(i, Borrowed("entryGetEncoded"),
                   Entry_GetEncodedExecute(inv[i], allocOk, ret))

\* Mutant: releasing the Context destroys the objects it borrowed.
Completed_DestroysBorrowed(i, s) ==
    /\ inv' = [inv EXCEPT ![i] = [s EXCEPT !.pc = "done"]]
    /\ native' = [t \in Targets |-> IF t \in Borrowed(inv[i].op) THEN "destroyed"
                                     ELSE native[t]]
    /\ UNCHANGED jsThread

\* The caller's thread, once free, runs the Complete function of executed work.
Completed(i, s) ==
    /\ inv' = [inv EXCEPT ![i] = [s EXCEPT !.pc = "done"]]
    /\ UNCHANGED <<jsThread, native>>

\* Mutant: the Complete function runs on a thread of its own.
CanComplete_OffThread(i, op) == inv[i].pc = "executed" /\ inv[i].op = op

CanComplete(i, op) == jsThread = 0 /\ inv[i].pc = "executed" /\ inv[i].op = op

\* The statuses the host may hand a Complete function.
NapiStatuses == {"napi_ok", "napi_cancelled"}

\* The callback's status matters in Callback mode only.
CbStatuses(i) ==
    IF inv[i].ctx.asyncType = ASYNC_TYPE_CALLBACK THEN BOOLEAN ELSE {TRUE}

CompleteGetEncoded(i) ==
    /\ CanComplete(i, "getEncoded")
    /\ \E status \in NapiStatuses, cbOk \in CbStatuses(i) :
          Completed(i, GetEncodedComplete(inv[i], status, cbOk))

CompleteVerify(i) ==
    /\ CanComplete(i, "verify")
    /\ \E status \in NapiStatuses, cbOk \in CbStatuses(i) :
          Completed(i, VerifyComplete(inv[i], status, cbOk))

CompleteGetRevokedCertificates(i) ==
    /\ CanComplete(i, "getRevokedCerts")
    /\ \E status \in NapiStatuses, cbOk \in CbStatuses(i),
          failAt \in 0..inv[i].ctx.count :
          Completed(i, GetRevokedCertificatesComplete(inv[i], status, failAt, cbOk))

CompleteCreateX509Crl(i) ==
    /\ CanComplete(i, "createX509Crl")
    /\ \E status \in NapiStatuses, cbOk \in CbStatuses(i), wrapOk \in BOOLEAN :
          Completed(i, CreateX509CrlComplete(inv[i], status, wrapOk, cbOk))

CompleteEntryGetEncoded(i) ==
    /\ CanComplete(i, "entryGetEncoded")
    /\ \E status \in NapiStatuses, cbOk \in CbStatuses(i) :
          Completed(i, Entry_GetEncodedComplete(inv[i], status, cbOk))

\* The host finalizes the handle of a wrapped object: the lambda given to
\* napi_wrap deletes the NapiX509Crl / NapiX509CrlEntry, whose destructor
\* destroys the native object.
Finalize(i, k) ==
    /\ jsThread = 0
    /\ k \in DOMAIN inv[i].objs
    /\ inv[i].objs[k].st = "wrapped"
    /\ inv' = [inv EXCEPT ![i].objs[k] = [@ EXCEPT !.st = "finalized",
                                                   !.destroys = @ + 1]]
    /\ UNCHANGED <<jsThread, native>>

\* The caller drops the handle of a target while queued work still borrows the
\* object behind it, and the host finalizes the handle: ~NapiX509Crl /
\* ~NapiX509CrlEntry destroys the native object.  (No Context holds a
\* reference that would keep the handle alive.)
FinalizeTarget(t) ==
    /\ jsThread = 0
    /\ native[t] = "alive"
    /\ \E i \in Inv : inv[i].pc = "queued" /\ t \in Borrowed(inv[i].op)
    /\ native' = [native EXCEPT ![t] = "destroyed"]
    /\ UNCHANGED <<inv, jsThread>>

Next ==
    \/ \E i \in Inv : CallGetEncoded(i)
    \/ \E i \in Inv : CallVerify(i)
    \/ \E i \in Inv : CallGetRevokedCertificates(i)
    \/ \E i \in Inv : CallNapiCreateX509Crl(i)
    \/ \E i \in Inv : CallEntryGetEncoded(i)
    \/ \E i \in Inv : CallGetRevokedCertificate(i)
    \/ \E i \in Inv : CallGetRevokedCertificateWithCert(i)
    \/ \E i \in Inv : CallGetTBSCertList(i)
    \/ \E i \in Inv : CallGetSignature(i)
    \/ \E i \in Inv : EntryReturn(i)
    \/ \E i \in Inv : ExecGetEncoded(i)
    \/ \E i \in Inv : ExecVerify(i)
    \/ \E i \in Inv : ExecGetRevokedCertificates(i)
    \/ \E i \in Inv : ExecCreateX509Crl(i)
    \/ \E i \in Inv : ExecEntryGetEncoded(i)
    \/ \E i \in Inv : CompleteGetEncoded(i)
    \/ \E i \in Inv : CompleteVerify(i)
    \/ \E i \in Inv : CompleteGetRevokedCertificates(i)
    \/ \E i \in Inv : CompleteCreateX509Crl(i)
    \/ \E i \in Inv : CompleteEntryGetEncoded(i)
    \/ \E i \in Inv, k \in 1..MaxCount : Finalize(i, k)
    \/ \E t \in Targets : FinalizeTarget(t)

Spec == Init /\ [][Next]_vars

\* The steps the host guarantees: a worker thread of the pool takes queued
\* work, and the caller's event loop lets a running entry point return and
\* calls the Complete function of executed work.
Execute(i) ==
    \/ ExecGetEncoded(i) \/ ExecVerify(i) \/ ExecGetRevokedCertificates(i)
    \/ ExecCreateX509Crl(i) \/ ExecEntryGetEncoded(i)

Complete(i) ==
    \/ CompleteGetEncoded(i) \/ CompleteVerify(i) \/ CompleteGetRevokedCertificates(i)
    \/ CompleteCreateX509Crl(i) \/ CompleteEntryGetEncoded(i)

Fairness ==
    \A i \in Inv : /\ WF_vars(EntryReturn(i))
                   /\ WF_vars(Execute(i))
                   /\ WF_vars(Complete(i))

FairSpec == Spec /\ Fairness

\* ================================================================= claims
Scheduled(s) == s.pc \in {"queued", "executed", "done"}

\* Nothing more runs for the invocation: it was rejected, its Complete function
\* has run, its synchronous lookup has returned, or its entry point has
\* returned although no work could be queued.
Terminal(i) ==
    \/ inv[i].pc \in {"rejected", "done", "returned"}
    \/ inv[i].pc = "unqueued" /\ jsThread /= i

\* The Context is gone and so is everything it owned.
FullyReleased(s) ==
    /\ s.heap = "freed"
    /\ s.released = 1
    /\ s.workDel = 1
    /\ s.refDel = (IF s.ctx.callback THEN 1 ELSE 0)
    /\ ~s.ctx.encodingBlob /\ ~s.ctx.encoded /\ ~s.ctx.array

\* C1: every invocation that allocated a Context has, in every terminal state,
\* released it exactly once (no leak, no double free).
C1_ReleasedExactlyOnce ==
    \A i \in Inv : (Terminal(i) /\ inv[i].heap /= "none") => inv[i].released = 1

\* C2: a scheduled invocation delivers exactly once, through the handle of its
\* mode: nothing before its Complete function ran, and after it one callback
\* call in Callback mode, one settlement (resolve or reject) in Promise mode.
C2_DeliveredExactlyOnce ==
    \A i \in Inv :
        LET s == inv[i]
        IN /\ (Scheduled(s) /\ s.pc /= "done") => s.delivered = <<>>
           /\ s.pc = "done" =>
                 /\ Len(s.delivered) = 1
                 /\ (s.ctx.asyncType = ASYNC_TYPE_CALLBACK) =
                        (s.delivered[1].via = "callback")
                 /\ (s.ctx.asyncType = ASYNC_TYPE_PROMISE) =
                        (s.delivered[1].via \in {"resolve", "reject"})
           /\ ~Scheduled(s) => s.delivered = <<>>

C2_Witness ==
    /\ inv[1].pc = "done" /\ inv[1].op = "getRevokedCerts" /\ inv[1].wrapFail > 0
    /\ inv[1].ctx.asyncType = ASYNC_TYPE_CALLBACK /\ Len(inv[1].delivered) = 1
    /\ inv[2].pc = "done" /\ inv[2].op = "createX509Crl"
    /\ inv[2].ctx.asyncType = ASYNC_TYPE_PROMISE /\ Len(inv[2].delivered) = 1

\* C3: under fair scheduling of the worker pool and of the caller's event
\* loop, queued work always ends delivered and released, whatever status the
\* Complete function is handed; and no step takes queued or executed work
\* anywhere but forward (no cancellation, no timeout).
C3_NoCancel ==
    \A i \in Inv :
        /\ inv[i].pc = "queued" => inv[i].pc' \in {"queued", "executed"}
        /\ inv[i].pc = "executed" => inv[i].pc' \in {"executed", "done"}

C3_ScheduledRunsToRelease ==
    /\ \A i \in Inv :
          (inv[i].pc = "queued") ~>
              (/\ inv[i].pc = "done"
               /\ Len(inv[i].delivered) = 1
               /\ inv[i].released = 1)
    /\ [][C3_NoCancel]_vars

C3_Witness ==
    \E i \in Inv : /\ inv[i].pc = "done" /\ inv[i].op = "verify"
                   /\ Len(inv[i].delivered) = 1 /\ inv[i].released = 1

\* C4: the steps of one invocation occur in the order Build, Schedule, Execute,
\* Dispatch, Release: the work is queued with the Context built and the
\* completion handle set, and nothing is executed or delivered unscheduled.
Canon == <<"build", "schedule", "execute", "dispatch", "release">>

IsPrefix(a, b) == Len(a) <= Len(b) /\ \A k \in 1..Len(a) : a[k] = b[k]

C4_StrictOrder ==
    \A i \in Inv :
        LET s == inv[i]
        IN /\ Scheduled(s) => IsPrefix(s.trace, Canon)
           /\ s.pc \in {"queued", "executed"} =>
                 /\ s.heap = "live" /\ s.ctx.asyncWork
                 /\ s.ctx.callback \/ s.ctx.deferred
           /\ s.pc = "done" => s.trace = Canon
           /\ ~Scheduled(s) =>
                 \A k \in 1..Len(s.trace) : s.trace[k] \in {"build", "release"}

C4_Witness ==
    \E i \in Inv : /\ inv[i].trace = Canon /\ inv[i].op = "createX509Crl"
                   /\ inv[i].objs[1].st = "wrapped"

\* C5: a native failure status c is delivered as the error (c, the worker's
\* static message of the operation), in the error slot of the callback or as
\* the rejection; no success value is delivered, no object is wrapped, and the
\* Context is fully released.
StaticMsg(op) ==
    CASE op = "createX509Crl" -> "create X509Crl failed"
      [] op = "getEncoded" -> "get encoded failed"
      [] op = "verify" -> "verify crl failed"
      [] op = "getRevokedCerts" -> "get revoked certs failed"
      [] op = "entryGetEncoded" -> "get encoded failed"

NativeFailed(s) == s.pc = "done" /\ s.nativeRet \in NativeErrs

C5_NativeFailureDelivered ==
    \A i \in Inv :
        LET s == inv[i]
        IN NativeFailed(s) =>
              /\ Len(s.delivered) = 1
              /\ s.delivered[1].via \in {"callback", "reject"}
              /\ s.delivered[1].err.kind = "error"
              /\ s.delivered[1].err.code = s.nativeRet
              /\ s.delivered[1].err.msg = StaticMsg(s.op)
              /\ s.delivered[1].value.kind \in {"nullptr", "null"}
              /\ \A k \in DOMAIN s.objs : s.objs[k].wraps = 0
              /\ FullyReleased(s)

C5_Witness ==
    \E i \in Inv : /\ NativeFailed(inv[i]) /\ inv[i].op = "getRevokedCerts"
                   /\ inv[i].nativeRet = CF_ERR_CRYPTO_OPERATION
                   /\ inv[i].delivered[1].via = "reject"

\* C6: every callback call has exactly one slot populated: (error, no value)
\* or (no error, value).  The JS null verify hands over counts as a value
\* beside no error and as no value beside an error.
C6_OneSlotPopulated ==
    \A i \in Inv :
        \A k \in 1..Len(inv[i].delivered) :
            LET d == inv[i].delivered[k]
            IN d.via = "callback" =>
                  \/ d.err.kind = "error" /\ d.value.kind \in {"nullptr", "null"}
                  \/ d.err.kind = "nullptr" /\ d.value.kind /= "nullptr"

\* C7: createX509Crl, native create succeeded, wrapper allocation failed: the
\* native CRL is destroyed once, before the delivery; the caller is delivered
\* a CF_ERR_MALLOC error and no handle; the Context is released.
WrapFailedCreate(s) ==
    /\ s.pc = "done" /\ s.op = "createX509Crl"
    /\ s.nativeRet = CF_SUCCESS /\ s.wrapFail /= 0

C7_WrapFailureDestroysCrl ==
    \A i \in Inv :
        LET s == inv[i]
        IN WrapFailedCreate(s) =>
              /\ s.objs[1].st = "destroyed" /\ s.objs[1].destroys = 1
              /\ s.objs[1].early /\ s.objs[1].wraps = 0
              /\ Len(s.delivered) = 1
              /\ s.delivered[1].via \in {"callback", "reject"}
              /\ s.delivered[1].err.kind = "error"
              /\ s.delivered[1].err.code = CF_ERR_MALLOC
              /\ s.delivered[1].value.kind = "nullptr"
              /\ FullyReleased(s)

C7_Witness ==
    \E i \in Inv : /\ WrapFailedCreate(inv[i])
                   /\ inv[i].delivered[1].via = "callback"

\* C8: getRevokedCerts, the wrap of element f fails: element f is destroyed,
\* every later element is destroyed too, and an error is delivered.
C8_WrapFailureRemediated ==
    \A i \in Inv :
        LET s == inv[i]
        IN (s.pc = "done" /\ s.op = "getRevokedCerts" /\ s.wrapFail /= 0) =>
              /\ s.objs[s.wrapFail].st = "destroyed"
              /\ \A k \in DOMAIN s.objs : k > s.wrapFail => s.objs[k].st = "destroyed"
              /\ Len(s.delivered) = 1
              /\ s.delivered[1].err.kind = "error"

\* C9: after Dispatch and Release every native object a worker produced is
\* either owned by exactly one wrapper handle (until its finalizer destroys
\* it) or destroyed exactly once by the bridge, never both and never neither.
C9_WrappedOrDestroyed ==
    \A i \in Inv :
        inv[i].pc = "done" =>
            \A k \in DOMAIN inv[i].objs :
                LET o == inv[i].objs[k]
                IN \/ o.st = "wrapped" /\ o.wraps = 1 /\ o.destroys = 0
                   \/ o.st = "finalized" /\ o.wraps = 1 /\ o.destroys = 1
                   \/ o.st = "destroyed" /\ o.wraps = 0 /\ o.destroys = 1

\* C10: once an invocation is scheduled, nothing is thrown in the caller's
\* context for it: its failures reach the caller through the callback or the
\* promise only.
C10_NothingThrownAfterScheduling ==
    \A i \in Inv : Scheduled(inv[i]) => inv[i].thrown = <<>>

\* C11: getRevokedCerts, native success with N >= 1 entries and no wrap
\* failure: the delivered array has exactly N elements, element i wraps the
\* native entry i, and every entry is wrapped exactly once, by an instance of
\* its own.
RevokedCertsWrapped(s) ==
    /\ s.pc = "done" /\ s.op = "getRevokedCerts"
    /\ s.nativeRet = CF_SUCCESS /\ Len(s.objs) >= 1 /\ s.wrapFail = 0

C11_ArrayIndexStable ==
    \A i \in Inv :
        LET s == inv[i]
        IN RevokedCertsWrapped(s) =>
              /\ Len(s.delivered) = 1
              /\ s.delivered[1].value.kind = "array"
              /\ Len(s.delivered[1].value.elems) = Len(s.objs)
              /\ \A k \in 1..Len(s.objs) :
                    /\ s.delivered[1].value.elems[k] = k
                    /\ s.objs[k].wraps = 1
                    /\ s.objs[k].st \in {"wrapped", "finalized"}

C11_Witness ==
    \E i \in Inv : /\ RevokedCertsWrapped(inv[i]) /\ Len(inv[i].objs) >= 2
                   /\ inv[i].delivered[1].via = "resolve"
                   /\ Len(inv[i].delivered[1].value.elems) >= 2

\* C12: getRevokedCerts, native success with no entry: no array is created, the
\* value handed over is the empty indication (a null napi_value), and it is
\* handed over as a success: the promise is resolved, or the callback is called
\* with no error.  A null array pointer gets the same indication
\* (GetRevokedCertificatesExecute never leaves one beside CF_SUCCESS).
EmptyRevokedCerts(s) ==
    /\ s.pc = "done" /\ s.op = "getRevokedCerts"
    /\ s.nativeRet = CF_SUCCESS /\ Len(s.objs) = 0

C12_EmptyIsNone ==
    \A i \in Inv :
        LET s == inv[i]
        IN /\ EmptyRevokedCerts(s) =>
                 /\ Len(s.delivered) = 1
                 /\ s.delivered[1].value = Nullptr
                 /\ s.delivered[1].err = Nullptr
                 /\ s.delivered[1].via \in {"resolve", "callback"}
           /\ (s.pc = "executed" /\ s.op = "getRevokedCerts") =>
                 /\ s.ctx.errCode = CF_SUCCESS => s.ctx.array
                 /\ GenerateCrlEntryArray([s EXCEPT !.ctx.array = FALSE], 0)[1] = Nullptr

C12_Witness ==
    \E i \in Inv : /\ EmptyRevokedCerts(inv[i])
                   /\ inv[i].delivered[1].via = "callback"
                   /\ inv[i].delivered[1].value.kind = "nullptr"

\* C13: an asynchronous entry point of maximum arity max, called with max - 1
\* or max arguments, selects the Callback mode if and only if the count is max
\* and the last argument is a function; otherwise it selects the Promise mode.
MaxArity(op) ==
    CASE op = "createX509Crl" -> ARGS_SIZE_TWO
      [] op = "verify" -> ARGS_SIZE_TWO
      [] OTHER -> ARGS_SIZE_ONE

C13_ModeSelection ==
    \A i \in Inv :
        \A k \in 1..Len(inv[i].sel) :
            LET a == inv[i].sel[k]
            IN /\ a.maxCount = MaxArity(inv[i].op)
               /\ a.argc \in {a.maxCount - 1, a.maxCount}
               /\ (inv[i].ctx.asyncType = ASYNC_TYPE_CALLBACK) =
                      (a.argc = a.maxCount /\ a.callable)
               /\ (inv[i].ctx.asyncType = ASYNC_TYPE_PROMISE) =
                      ~(a.argc = a.maxCount /\ a.callable)

C13_Witness ==
    /\ inv[1].op = "verify" /\ inv[1].ctx.asyncType = ASYNC_TYPE_PROMISE
    /\ inv[1].pc = "executed"
    /\ inv[2].op = "getEncoded" /\ Len(inv[2].sel) = 1
    /\ inv[2].sel[1].argc = ARGS_SIZE_ONE /\ inv[2].sel[1].callable
    /\ inv[2].ctx.asyncType = ASYNC_TYPE_CALLBACK

\* C14: as long as the Context of a scheduled invocation exists, exactly one
\* completion handle is set and it is the one of the mode: the callback
\* reference and no deferred in Callback mode, the deferred and no callback
\* reference in Promise mode.
C14_OneHandleMatchesMode ==
    \A i \in Inv :
        LET s == inv[i]
        IN (Scheduled(s) /\ s.heap = "live") =>
              /\ s.ctx.asyncType = ASYNC_TYPE_CALLBACK =>
                    (s.ctx.callback /\ ~s.ctx.deferred /\ ~s.ctx.promise)
              /\ s.ctx.asyncType = ASYNC_TYPE_PROMISE =>
                    (s.ctx.deferred /\ ~s.ctx.callback)

C14_Witness ==
    /\ inv[1].pc = "queued" /\ inv[1].ctx.asyncType = ASYNC_TYPE_CALLBACK
    /\ inv[1].ctx.callback /\ ~inv[1].ctx.deferred
    /\ inv[2].pc = "executed" /\ inv[2].ctx.asyncType = ASYNC_TYPE_PROMISE
    /\ inv[2].ctx.deferred /\ ~inv[2].ctx.callback

\* C15: Callback mode selected and the callback cannot be retained: the entry
\* point queues no work, no Execute or Complete function runs, nothing is
\* delivered, and the entry point releases the Context, with the encoding blob
\* it owns, exactly once.
GetCallbackFailed(s) ==
    \E k \in 1..Len(s.log) : s.log[k] \in {"x509 crl: get callback failed!",
                                           "x509 crl entry: get callback failed!"}

C15_CallbackRetentionFailure ==
    \A i \in Inv :
        LET s == inv[i]
        IN GetCallbackFailed(s) =>
              /\ s.pc = "rejected"
              /\ ~s.ctx.asyncWork /\ s.workDel = 0
              /\ s.trace = <<"build", "release">>
              /\ s.nativeCalls = 0 /\ s.writes = <<>>
              /\ s.delivered = <<>>
              /\ s.heap = "freed" /\ s.released = 1 /\ s.freedIn = <<"entry">>
              /\ ~s.ctx.encodingBlob

C15_Witness ==
    \E i \in Inv : /\ GetCallbackFailed(inv[i]) /\ inv[i].op = "createX509Crl"
                   /\ inv[i].ctx.asyncType = ASYNC_TYPE_CALLBACK
                   /\ inv[i].released = 1

\* C16: a wrong argument count, a null public key in verify, an undecodable
\* encoding blob in createX509Crl, or a failed allocation of the Context: the
\* entry point returns at once; no work is created or queued, no Execute or
\* Complete function runs, no callback is called and no promise is settled.
Logged(s, msg) == \E k \in 1..Len(s.log) : s.log[k] = msg

Refused(s) ==
    \/ \E k \in 1..Len(s.thrown) : s.thrown[k].where \in {"CertCheckArgsCount", "Verify"}
    \/ Logged(s, "malloc context failed!")
    \/ Logged(s, "get encoding blob from data failed!")

C16_RejectedImmediately ==
    \A i \in Inv :
        LET s == inv[i]
        IN Refused(s) =>
              /\ s.pc = "rejected" /\ s.ret = "nullptr"
              /\ ~s.ctx.asyncWork /\ s.workDel = 0
              /\ \A k \in 1..Len(s.trace) : s.trace[k] \in {"build", "release"}
              /\ s.nativeCalls = 0 /\ s.writes = <<>>
              /\ s.delivered = <<>>

C16_Witness ==
    /\ inv[1].op = "verify" /\ inv[1].pc = "rejected"
    /\ Logged(inv[1], "pubKey is null!")
    /\ inv[2].op = "createX509Crl" /\ inv[2].pc = "rejected"
    /\ Logged(inv[2], "get encoding blob from data failed!")

\* C17: every invocation the entry point refuses before scheduling, a failed
\* allocation of the Context included, has an error thrown by the entry point.
C17_RefusalThrown ==
    \A i \in Inv :
        (inv[i].pc = "rejected"
         /\ inv[i].op \notin {"getRevokedCert", "getRevokedCertWithCert"}) =>
            inv[i].thrown /= <<>>

\* C18: every failure path of an invocation that allocated a Context ends with
\* the Context released, the paths where the work could not be created or
\* queued included.
Failed(s) == s.pc \in {"rejected", "unqueued"} \/ s.ctx.errCode /= CF_SUCCESS

C18_FailurePathsRelease ==
    \A i \in Inv :
        (Terminal(i) /\ Failed(inv[i]) /\ inv[i].heap /= "none") =>
            inv[i].heap = "freed"

\* C19 as stated: errCode, errMsg and the payload are written by Execute
\* functions only, each at most once.
C19_OnlyExecuteWrites ==
    \A i \in Inv :
        LET w == inv[i].writes
        IN /\ \A k \in 1..Len(w) : w[k].by = "execute"
           /\ \A k, l \in 1..Len(w) : k /= l => w[k].field /= w[l].field

\* C19: errCode, errMsg and the payload are written by the Execute function,
\* each at most once, once execution has started, and never by an entry point;
\* a Complete function writes errCode and errMsg (never the payload) in one
\* case only: CreateX509CrlComplete when the NapiX509Crl cannot be allocated,
\* each once, after the Execute function's writes.
C19_WritesByExecuteOrFailedWrap ==
    \A i \in Inv :
        LET s == inv[i]
            w == s.writes
        IN /\ \A k \in 1..Len(w) :
                 \/ w[k].by = "execute"
                 \/ /\ w[k].by = "complete"
                    /\ w[k].field \in {"errCode", "errMsg"}
                    /\ s.op = "createX509Crl" /\ s.wrapFail /= 0
                    /\ s.nativeRet = CF_SUCCESS
           /\ \A k, l \in 1..Len(w) :
                 (k /= l /\ w[k].by = w[l].by) => w[k].field /= w[l].field
           /\ \A k, l \in 1..Len(w) :
                 (w[k].by = "complete" /\ w[l].by = "execute") => l < k
           /\ w /= <<>> => s.pc \in {"executed", "done"}
           /\ s.pc \in {"executed", "done"} =>
                 \E k \in 1..Len(w) : w[k].by = "execute" /\ w[k].field = "errCode"

C19_Witness ==
    \E i \in Inv :
        /\ inv[i].pc = "done" /\ inv[i].op = "createX509Crl"
        /\ \E k \in 1..Len(inv[i].writes) :
              inv[i].writes[k] = [field |-> "errCode", by |-> "complete"]
        /\ inv[i].writes[1] = [field |-> "errCode", by |-> "execute"]

\* C20 as stated: every call that frees a Context is made from a Complete
\* function.
C20_OnlyCompleteFrees ==
    \A i \in Inv :
        \A k \in 1..Len(inv[i].freedIn) : inv[i].freedIn[k] = "complete"

\* C20: the Context of a scheduled invocation is freed by its Complete function
\* only; the Context of an invocation the entry point refuses after the
\* allocation is freed by the entry point; no Execute function frees one.
C20_FreedByCompleteOrRefusal ==
    \A i \in Inv :
        LET s == inv[i]
        IN /\ \A k \in 1..Len(s.freedIn) : s.freedIn[k] \in {"complete", "entry"}
           /\ Scheduled(s) => \A k \in 1..Len(s.freedIn) : s.freedIn[k] = "complete"
           /\ (\E k \in 1..Len(s.freedIn) : s.freedIn[k] = "entry") =>
                 /\ s.pc = "rejected"
                 /\ GetCallbackFailed(s) \/ Logged(s, "get encoding blob from data failed!")
           /\ s.pc = "done" => s.freedIn = <<"complete">>

C20_Witness ==
    /\ inv[1].op = "getRevokedCerts" /\ inv[1].freedIn = <<"entry">>
    /\ inv[2].op = "getRevokedCerts" /\ inv[2].freedIn = <<"complete">>

\* C21: concurrent invocations never share a Context: a step of one invocation
\* leaves every other invocation's record alone, so a worker writes its own
\* result slot only; the Complete function reads the slot after its own
\* worker wrote it, and delivers what its own worker left there.
C21_OneInvocationPerStep ==
    \A i, j \in Inv : i /= j => (inv'[i] = inv[i] \/ inv'[j] = inv[j])

OwnResult(s) ==
    /\ Len(s.delivered) = 1
    /\ \E k \in 1..Len(s.writes) : s.writes[k].by = "execute"
    /\ (s.nativeCalls = 1 /\ s.wrapFail = 0) => s.ctx.errCode = s.nativeRet
    /\ s.delivered[1].err = IF s.ctx.errCode /= CF_SUCCESS
                            THEN CertGenerateBusinessError(s.ctx.errCode, s.ctx.errMsg)
                            ELSE Nullptr
    /\ s.ctx.errCode /= CF_SUCCESS => s.ctx.errMsg /= ""

C21_ContextsNotShared ==
    /\ [](\A i \in Inv :
             /\ inv[i].pc = "done" => OwnResult(inv[i])
             /\ (inv[i].pc = "executed" /\ inv[i].nativeCalls = 1) =>
                    inv[i].ctx.errCode = inv[i].nativeRet)
    /\ [][C21_OneInvocationPerStep]_vars

C21_Witness ==
    /\ inv[1].op = "getEncoded" /\ inv[1].pc = "executed"
    /\ inv[1].ctx.errCode = CF_SUCCESS
    /\ inv[2].op = "getEncoded" /\ inv[2].pc = "executed"
    /\ inv[2].ctx.errCode = CF_ERR_CRYPTO_OPERATION

\* C22: no Execute function writes the completion handle: asyncType, callback,
\* deferred and promise of a scheduled invocation stay as CreateCallbackAndPromise
\* left them, through the Execute step and up to the Complete function.
HandleFields(c) == <<c.asyncType, c.callback, c.deferred, c.promise>>

C22_HandleUnchanged ==
    \A i \in Inv :
        Scheduled(inv[i]) => HandleFields(inv'[i].ctx) = HandleFields(inv[i].ctx)

C22_ExecuteLeavesHandle == [][C22_HandleUnchanged]_vars

C22_Witness ==
    \E i \in Inv : /\ inv[i].pc = "executed" /\ inv[i].op = "verify"
                   /\ inv[i].ctx.asyncType = ASYNC_TYPE_CALLBACK
                   /\ inv[i].ctx.callback /\ inv[i].nativeCalls = 1

\* C23 as stated: every run of an Execute function makes exactly one native
\* call and writes errCode exactly once.
Ran(s) == s.pc \in {"executed", "done"}

ExecWrites(s, field) ==
    Cardinality({k \in 1..Len(s.writes) :
                    s.writes[k].by = "execute" /\ s.writes[k].field = field})

C23_OneOperationOneOutcome ==
    \A i \in Inv :
        Ran(inv[i]) => (inv[i].nativeCalls = 1 /\ ExecWrites(inv[i], "errCode") = 1)

\* C23: every run of an Execute function makes at most one native call: exactly
\* one, unless the allocation of its result buffer fails, and then none; on
\* every path it writes one outcome: errCode once, and errMsg once exactly
\* when the outcome is a failure.
BufferFailed(s) ==
    \E k \in 1..Len(s.log) : s.log[k] \in {"malloc encoding blob failed!",
                                           "malloc array failed!"}

C23_AtMostOneOperationOneOutcome ==
    \A i \in Inv :
        LET s == inv[i]
        IN /\ Ran(s) =>
                 /\ s.nativeCalls = (IF BufferFailed(s) THEN 0 ELSE 1)
                 /\ ExecWrites(s, "errCode") = 1
                 /\ ExecWrites(s, "errMsg") =
                        (IF BufferFailed(s) \/ s.nativeRet \in NativeErrs THEN 1 ELSE 0)
                 /\ BufferFailed(s) =>
                        \A k \in 1..Len(s.writes) :
                            s.writes[k].field \in {"errCode", "errMsg"}
           /\ s.pc \in {"idle", "queued", "unqueued"} =>
                 (s.nativeCalls = 0 /\ s.writes = <<>>)

C23_Witness ==
    \E i \in Inv : /\ Ran(inv[i]) /\ inv[i].op = "getRevokedCerts"
                   /\ BufferFailed(inv[i]) /\ inv[i].nativeCalls = 0
                   /\ inv[i].ctx.errCode = CF_ERR_MALLOC

\* C24: the entry point does not wait: whenever it has queued the work (or
\* failed to) and has not returned yet, it can return, whatever the worker has
\* done; it may have returned while the work is still queued.
C24_EntryNeverWaits ==
    \A i \in Inv :
        /\ jsThread = i => ENABLED EntryReturn(i)
        /\ (inv[i].pc \in {"queued", "unqueued", "executed"} /\ inv[i].ret = "none") =>
               jsThread = i

C24_Witness ==
    \E i \in Inv : /\ inv[i].pc = "queued" /\ inv[i].ret = "promise"
                   /\ jsThread = 0 /\ inv[i].nativeCalls = 0

\* C25: a step that releases a Context destroys none of the objects the method
\* was invoked on or was handed (the CRL, the CRL entry, the public key), and
\* the released Context's pointers to them are as the entry point set them.
C25_ReleaseStep ==
    \A i \in Inv : inv'[i].released /= inv[i].released => native' = native

C25_BorrowedUntouched ==
    /\ [](\A i \in Inv :
             inv[i].heap = "freed" =>
                 /\ inv[i].op \in {"getEncoded", "verify", "getRevokedCerts"} =>
                        inv[i].ctx.crlClass
                 /\ inv[i].op = "entryGetEncoded" => inv[i].ctx.crlEntryClass
                 /\ inv[i].op = "verify" => inv[i].ctx.pubKey)
    /\ [][C25_ReleaseStep]_vars

C25_Witness ==
    \E i \in Inv : /\ inv[i].op = "verify" /\ inv[i].pc = "done"
                   /\ inv[i].released = 1 /\ inv[i].ctx.pubKey
                   /\ native["crl"] = "alive" /\ native["pubKey"] = "alive"

\* C26: a wrapped native object is wrapped once; the bridge never destroys it
\* (neither a Complete function nor the release of the Context); it is
\* destroyed at most once, by the finalizer of its own handle, after the
\* handle was handed to the caller; a finalizer destroys no other object.
C26_FinalizeStep ==
    \A i \in Inv : \A k \in DOMAIN inv[i].objs :
        (inv[i].objs[k].st = "wrapped" /\ inv'[i].objs[k].st /= "wrapped") =>
            /\ inv'[i].objs[k].st = "finalized"
            /\ inv'[i] = [inv[i] EXCEPT !.objs[k] = inv'[i].objs[k]]
            /\ \A j \in Inv : j /= i => inv'[j] = inv[j]

C26_FinalizerOwnsObject ==
    /\ [](\A i \in Inv : \A k \in DOMAIN inv[i].objs :
             LET o == inv[i].objs[k]
             IN o.wraps >= 1 =>
                   /\ o.wraps = 1 /\ ~o.early
                   /\ o.st \in {"wrapped", "finalized"}
                   /\ o.destroys = (IF o.st = "finalized" THEN 1 ELSE 0)
                   /\ inv[i].pc \in {"done", "returned"})
    /\ [][C26_FinalizeStep]_vars

C26_Witness ==
    \E i \in Inv : /\ inv[i].op = "createX509Crl" /\ inv[i].pc = "done"
                   /\ Len(inv[i].objs) = 1
                   /\ inv[i].objs[1].st = "finalized"
                   /\ inv[i].objs[1].destroys = 1 /\ inv[i].objs[1].wraps = 1

\* C27: the callback reference is deleted exactly once if it was retained and
\* never otherwise (never in Promise mode), by the release of the Context and
\* not before the delivery used it.
C27_CallbackReleasedOnce ==
    \A i \in Inv :
        LET s == inv[i]
        IN /\ Terminal(i) => s.refDel = (IF s.ctx.callback THEN 1 ELSE 0)
           /\ s.refDel <= 1
           /\ s.refDel = 1 => (s.heap = "freed" /\ s.delivered /= <<>>)
           /\ s.ctx.asyncType = ASYNC_TYPE_PROMISE => s.refDel = 0

\* C28: getRevokedCert / getRevokedCertWithCert: a failed native lookup throws
\* the native status and creates no handle; a failed allocation of the wrapper
\* destroys the entry once, at once, and throws CF_ERR_MALLOC; otherwise one
\* handle owning the entry is returned and nothing is thrown.
SyncLookup(s) ==
    /\ s.op \in {"getRevokedCert", "getRevokedCertWithCert"}
    /\ s.nativeCalls = 1

C28_SyncLookup ==
    \A i \in Inv :
        LET s == inv[i]
        IN SyncLookup(s) =>
              /\ s.nativeRet \in NativeErrs =>
                    /\ Len(s.thrown) = 1 /\ s.thrown[1].code = s.nativeRet
                    /\ s.objs = <<>> /\ s.ret = "nullptr"
              /\ (s.nativeRet = CF_SUCCESS /\ s.wrapFail /= 0) =>
                    /\ Len(s.thrown) = 1 /\ s.thrown[1].code = CF_ERR_MALLOC
                    /\ Len(s.objs) = 1 /\ s.objs[1].st = "destroyed"
                    /\ s.objs[1].destroys = 1 /\ s.objs[1].wraps = 0
                    /\ s.ret = "nullptr"
              /\ (s.nativeRet = CF_SUCCESS /\ s.wrapFail = 0) =>
                    /\ s.thrown = <<>> /\ s.ret = "instance"
                    /\ Len(s.objs) = 1 /\ s.objs[1].wraps = 1
                    /\ s.objs[1].st \in {"wrapped", "finalized"}
                    /\ s.objs[1].destroys = (IF s.objs[1].st = "finalized" THEN 1 ELSE 0)

C28_Witness ==
    /\ SyncLookup(inv[1]) /\ inv[1].op = "getRevokedCert"
    /\ inv[1].wrapFail = 1 /\ inv[1].objs[1].st = "destroyed"
    /\ SyncLookup(inv[2]) /\ inv[2].op = "getRevokedCertWithCert"
    /\ inv[2].ret = "instance" /\ inv[2].objs[1].st = "wrapped"

\* C29: while an entry point is running, from the queueing of the work to its
\* reads of the mode and of the promise, its Context is not released,
\* whatever the worker thread has done meanwhile.
C29_EntryReadsLiveContext ==
    \A i \in Inv :
        /\ jsThread = i => (inv[i].heap = "live" /\ inv[i].released = 0)
        /\ inv[i].ret \in {"promise", "null"} => inv[i].heap /= "none"
        /\ (inv[i].pc = "done" /\ inv[i].op \in {"createX509Crl", "getEncoded", "verify",
                                                 "getRevokedCerts", "entryGetEncoded"}) =>
               inv[i].ret \in {"promise", "null"}

C29_Witness ==
    \E i \in Inv : /\ jsThread = i /\ inv[i].pc = "executed"
                   /\ inv[i].heap = "live" /\ inv[i].ret = "none"

\* C30: no Execute function dereferences a CRL, a CRL entry or a public key
\* that the finalizer of its handle has destroyed.
C30_NoUseAfterDestroy ==
    \A i \in Inv : ~inv[i].uaf

\* C31: when the allocation of a worker's result buffer fails (the encoding
\* blob of getEncoded, the array of getRevokedCerts), the worker records
\* CF_ERR_MALLOC with its static message, makes no native call and leaves the
\* payload field of the Context absent; the Complete function then delivers
\* that error, once, with no value, and releases the Context, and the release
\* gives back no result buffer.
AllocMsg(s) ==
    IF s.op = "getRevokedCerts" THEN "malloc array failed"
    ELSE "malloc encoding blob failed"

C31_BufferAllocationFailure ==
    \A i \in Inv :
        LET s == inv[i]
        IN (Ran(s) /\ BufferFailed(s)) =>
              /\ s.op \in {"getEncoded", "getRevokedCerts", "entryGetEncoded"}
              /\ s.nativeCalls = 0 /\ s.nativeRet = "none"
              /\ s.ctx.errCode = CF_ERR_MALLOC /\ s.ctx.errMsg = AllocMsg(s)
              /\ ~s.ctx.encoded /\ ~s.ctx.array /\ s.objs = <<>>
              /\ \A k \in 1..Len(s.writes) :
                     s.writes[k].field \in {"errCode", "errMsg"}
              /\ s.pc = "executed" => (s.delivered = <<>> /\ s.heap = "live")
              /\ s.pc = "done" =>
                     /\ Len(s.delivered) = 1
                     /\ s.delivered[1].via \in {"callback", "reject"}
                     /\ s.delivered[1].err =
                            CertGenerateBusinessError(CF_ERR_MALLOC, AllocMsg(s))
                     /\ s.delivered[1].value = Nullptr
                     /\ FullyReleased(s)
                     /\ s.freedBufs \cap {"encoded", "array"} = {}
                     /\ s.freedIn = <<"complete">>

C31_Witness ==
    /\ inv[1].pc = "done" /\ inv[1].op = "getEncoded" /\ BufferFailed(inv[1])
    /\ inv[1].delivered[1].via = "reject" /\ inv[1].released = 1
    /\ inv[2].pc = "done" /\ inv[2].op = "getRevokedCerts" /\ BufferFailed(inv[2])
    /\ inv[2].delivered[1].via = "callback" /\ inv[2].released = 1

\* C32: once the entry point of a scheduled invocation has returned, what it
\* returned depends on the mode only: in Promise mode the promise of the
\* Context, created together with the deferred that the invocation's
\* ReturnResult settles, and in Callback mode the null value, whatever the
\* operation and whatever the worker has done; and the promise exists from the
\* moment the work is queued.
C32_ReturnByMode ==
    \A i \in Inv :
        LET s == inv[i]
        IN /\ (Scheduled(s) /\ s.ret /= "none") =>
                 /\ s.ret = (IF s.ctx.asyncType = ASYNC_TYPE_PROMISE
                             THEN "promise" ELSE "null")
                 /\ s.ret = "promise" =>
                        /\ s.ctx.promise /\ s.ctx.deferred
                        /\ s.pc = "done" =>
                               /\ Len(s.delivered) = 1
                               /\ s.delivered[1].via \in {"resolve", "reject"}
                 /\ s.ret = "null" =>
                        /\ ~s.ctx.promise /\ ~s.ctx.deferred
                        /\ s.pc = "done" =>
                               /\ Len(s.delivered) = 1
                               /\ s.delivered[1].via = "callback"
           /\ (Scheduled(s) /\ s.ctx.asyncType = ASYNC_TYPE_PROMISE) =>
                 (s.ctx.promise /\ s.ctx.deferred)
           /\ (s.pc = "queued" /\ jsThread = i) => s.ret = "none"

C32_Witness ==
    /\ inv[1].pc = "done" /\ inv[1].ret = "promise"
    /\ inv[1].delivered[1].via = "resolve"
    /\ inv[2].pc = "queued" /\ inv[2].ret = "null" /\ inv[2].ctx.callback

\* C33: getTbsInfo and getSignature call the same function of the native CRL,
\* getSignature, once: on success both return the bytes that function wrote,
\* on failure both throw the status it returned and return nothing; getTbsInfo
\* calls no native TBS operation of its own.
SigGetter(s) ==
    /\ s.op \in {"getTbsInfo", "getSignature"}
    /\ s.nativeCalls > 0

Outcome(s) ==
    [ret |-> s.ret, data |-> s.retData,
     codes |-> [k \in 1..Len(s.thrown) |-> s.thrown[k].code]]

C33_TbsInfoIsSignature ==
    /\ \A i \in Inv :
          LET s == inv[i]
          IN SigGetter(s) =>
                /\ s.nativeCalls = 1 /\ s.nativeFn = "getSignature"
                /\ s.nativeRet = CF_SUCCESS =>
                       Outcome(s) = [ret |-> "blob", data |-> HcfX509Crl_getSignature,
                                     codes |-> <<>>]
                /\ s.nativeRet /= CF_SUCCESS =>
                       Outcome(s) = [ret |-> "nullptr", data |-> "none",
                                     codes |-> <<s.nativeRet>>]
    /\ \A i, j \in Inv :
          (/\ SigGetter(inv[i]) /\ inv[i].op = "getTbsInfo"
           /\ SigGetter(inv[j]) /\ inv[j].op = "getSignature"
           /\ inv[i].nativeRet = inv[j].nativeRet) =>
              (Outcome(inv[i]) = Outcome(inv[j]) /\ inv[i].nativeFn = inv[j].nativeFn)

C33_Witness ==
    \E i, j \in Inv :
        /\ inv[i].op = "getTbsInfo" /\ inv[j].op = "getSignature"
        /\ inv[i].nativeRet = CF_SUCCESS /\ inv[j].nativeRet = CF_SUCCESS
        /\ inv[i].ret = "blob" /\ inv[i].retData = inv[j].retData
        /\ inv[i].nativeFn = "getSignature"
====
